---- MODULE Spec2Model ----
(***************************************************************************)
(* The vending machine of Vending_Machine_SA_4.py: the VendingMachine      *)
(* object, its four State classes and the polling loop that feeds them.    *)
(*                                                                         *)
(* A Python string is modelled as the sequence of its '_'-free segments    *)
(* ("diode_0" is <<"diode", "0">>, "RETURN" is <<"RETURN">>, "" is <<"">>),*)
(* so that `'_' in s` and `s.rsplit('_', 1)` are computed, not assumed.    *)
(***************************************************************************)
EXTENDS Integers, Sequences, FiniteSets, TLC

(* ------------------------------ bounds -------------------------------- *)

\* Coins are accepted while the balance stays within MaxAmount five-cent units.
MaxAmount == 40

\* At most MaxInstance buttons per product are laid out in the window.
MaxInstance == 2

\* How many times the physical RETURN button is pressed in a run.
MaxPresses == 1

\* How many units are sold in a run of the loop whose window is modelled.
MaxSales == 3

(* ------------------------------ strings ------------------------------- *)

Str(s) == <<s>>

EmptyStr == Str("")

RETURN == Str("RETURN")

\* sg.TIMEOUT_KEY, '__TIMEOUT__': what window.read(timeout=10) returns when
\* nothing was clicked.
TIMEOUT_KEY == <<"", "", "TIMEOUT", "", "">>

\* '_' in s
HasUnderscore(s) == Len(s) > 1

\* s.rsplit('_', 1)
rsplit(s) ==
    IF HasUnderscore(s)
    THEN <<SubSeq(s, 1, Len(s) - 1), Str(s[Len(s)])>>
    ELSE <<s>>

\* The attribute does not exist on the object (hasattr is False).
NoAttr == <<>>

(* ------------------------------ catalog ------------------------------- *)

PRODUCTS ==
    (Str("diode") :> [name |-> "1N4001 diode", price |-> 75]) @@
    (Str("transistor") :> [name |-> "2N3904 BJT", price |-> 150]) @@
    (Str("cap") :> [name |-> "0.1uF Capacitor", price |-> 50]) @@
    (Str("res") :> [name |-> "10k Resistor", price |-> 5])

INITIAL_STOCK ==
    (Str("diode") :> 3) @@ (Str("transistor") :> 2) @@
    (Str("cap") :> 4) @@ (Str("res") :> 5)

COINS ==
    (Str("5") :> 5) @@ (Str("10") :> 10) @@ (Str("25") :> 25) @@
    (Str("100") :> 100) @@ (Str("200") :> 200)

Max(S) == CHOOSE x \in S : \A y \in S : y <= x

RECURSIVE SortedDesc(_)
\* sorted(values, reverse=True)
SortedDesc(S) ==
    IF S = {} THEN <<>> ELSE <<Max(S)>> \o SortedDesc(S \ {Max(S)})

\* The mutant of coin_values: the smallest denomination is left out.
coin_values_no_nickel == SortedDesc({COINS[k] : k \in DOMAIN COINS} \ {5})

\* self.coin_values
coin_values == SortedDesc({COINS[k] : k \in DOMAIN COINS})

(* ------------------------------ output -------------------------------- *)

\* One print() call: which line, and the product key or the cents it shows.
Msg(text, key, cents) == [text |-> text, key |-> key, cents |-> cents]

(* ------------------------- VendingMachine ----------------------------- *)

VARIABLES
    vending,    \* the VendingMachine object: its attributes, and what it
                \* printed since the loop last read an event
    pc,         \* where the polling loop stands: "read", "update", "retire",
                \* or "crashed"; "enter" inside AddCoinsState.update, between
                \* machine.event = product_key and go_to_state
    dispensed,  \* per product, how many "successfully dispensed" lines
                \* have been printed so far
    window,     \* the keys of the product buttons whose frame was hidden
    presses,    \* how many times a RETURN button callback has run
    pending     \* the events produced by the window or by a callback that
                \* no update() has acted on yet, oldest first

vars == <<vending, pc, dispensed, window, presses, pending>>

Say(m, line) == [m EXCEPT !.printed = Append(@, line)]

\* The mutant of add_coin: the coin is not credited.
add_coin_dropped(m, coin) == m

\* VendingMachine.add_coin
add_coin(m, coin) == [m EXCEPT !.amount = @ + COINS[coin]]

WaitingState_on_entry(m) == Say(m, Msg("waiting", EmptyStr, 0))

AddCoinsState_on_entry(m) == Say(m, Msg("balance", EmptyStr, m.amount))

\* The mutant of Debit: the balance is kept when the change is computed.
Debit_keeps_amount(m, product_key) ==
    [m EXCEPT !.stock[product_key] = @ - 1,
              !.change_due = m.amount - PRODUCTS[product_key].price]

\* The mutant of Debit: two units leave the stock.
Debit_takes_two(m, product_key) ==
    [m EXCEPT !.stock[product_key] = @ - 2,
              !.change_due = m.amount - PRODUCTS[product_key].price,
              !.amount = 0]

\* The assignments of a successful DeliverProductState.on_entry: one unit
\* leaves the stock, the change is what the balance exceeds the price by, and
\* the balance is zeroed.
Debit(m, product_key) ==
    [m EXCEPT !.stock[product_key] = @ - 1,
              !.change_due = m.amount - PRODUCTS[product_key].price,
              !.amount = 0]

\* machine.stock.get(product_key, 0)
StockGet(m, product_key) ==
    IF product_key \in DOMAIN m.stock THEN m.stock[product_key] ELSE 0

\* DeliverProductState.on_entry
DeliverProductState_on_entry(m) ==
    LET product_key == m.event IN
    IF StockGet(m, product_key) > 0
    THEN LET m1 == Debit(m, product_key)
         IN [Say(Say(m1, Msg("dispensing", product_key, 0)),
                 Msg("dispensed", product_key, m1.stock[product_key]))
               EXCEPT !.vend_successful = "True"]
    ELSE [Say(m, Msg("error_out_of_stock", product_key, 0))
            EXCEPT !.vend_successful = "False",
                   !.selected_button_key = NoAttr]

CountChangeState_on_entry(m) ==
    Say(Say(m, Msg("dispensing_change", EmptyStr, 0)),
        Msg("change_due", EmptyStr, m.change_due))

\* self.state.on_entry(self), dispatched on the class of the active state
on_entry(m) ==
    CASE m.state = "waiting" -> WaitingState_on_entry(m)
      [] m.state = "add_coins" -> AddCoinsState_on_entry(m)
      [] m.state = "deliver_product" -> DeliverProductState_on_entry(m)
      [] m.state = "count_change" -> CountChangeState_on_entry(m)

\* VendingMachine.go_to_state; every on_exit is `pass`
go_to_state(m, state_name) == on_entry([m EXCEPT !.state = state_name])

\* The mutant of WaitingState_update: RETURN is not absorbed, it starts a
\* change return.
WaitingState_update_refunds(m) ==
    IF m.event \in DOMAIN COINS
    THEN go_to_state(add_coin(m, m.event), "add_coins")
    ELSE IF m.event = RETURN
    THEN go_to_state([m EXCEPT !.event = EmptyStr], "count_change")
    ELSE m

\* WaitingState.update
WaitingState_update(m) ==
    IF m.event \in DOMAIN COINS
    THEN go_to_state(add_coin(m, m.event), "add_coins")
    ELSE IF m.event = RETURN
    THEN [m EXCEPT !.event = EmptyStr]
    ELSE m

\* The mutant of ReturnRequested: the balance is kept.
ReturnRequested_keeps_amount(m) ==
    go_to_state([m EXCEPT !.change_due = m.amount], "count_change")

\* The RETURN branch of AddCoinsState.update
ReturnRequested(m) ==
    go_to_state([m EXCEPT !.change_due = m.amount, !.amount = 0],
                "count_change")

\* The mutant of OutOfStock: an empty slot is not seen as out of stock.
OutOfStock_below_zero(m, product_key) == m.stock[product_key] < 0

\* machine.stock[product_key] <= 0
OutOfStock(m, product_key) == m.stock[product_key] <= 0

\* The mutant of CanAfford: any balance buys.
CanAfford_any_balance(m, price) == m.amount > 0

\* machine.amount >= price
CanAfford(m, price) == m.amount >= price

\* AddCoinsState.update
AddCoinsState_update(m) ==
    LET m1 ==
        IF m.event = RETURN
        THEN ReturnRequested(m)
        ELSE IF m.event \in DOMAIN COINS
        THEN AddCoinsState_on_entry(add_coin(m, m.event))
        ELSE IF HasUnderscore(m.event)
        THEN LET product_key == rsplit(m.event)[1] IN
             IF product_key \in DOMAIN PRODUCTS
             THEN LET price == PRODUCTS[product_key].price IN
                  IF OutOfStock(m, product_key)
                  THEN Say(m, Msg("out_of_stock", product_key, 0))
                  ELSE IF CanAfford(m, price)
                  THEN go_to_state([m EXCEPT !.selected_button_key = m.event,
                                             !.event = product_key],
                                   "deliver_product")
                  ELSE Say(m, Msg("insufficient_funds", product_key, price))
             ELSE m
        ELSE m
    IN [m1 EXCEPT !.event = EmptyStr]

\* The mutant of DeliverProductState_update: no change due is treated as
\* change due.
DeliverProductState_update_always_change(m) ==
    IF m.change_due >= 0
    THEN go_to_state(m, "count_change")
    ELSE go_to_state(m, "waiting")

\* The mutant of DeliverProductState_update: a RETURN is honoured, the sale is
\* left for add_coins.
DeliverProductState_update_honours_return(m) ==
    IF m.event = RETURN
    THEN go_to_state(m, "add_coins")
    ELSE IF m.change_due > 0
    THEN go_to_state(m, "count_change")
    ELSE go_to_state(m, "waiting")

\* DeliverProductState.update
DeliverProductState_update(m) ==
    IF m.change_due > 0
    THEN go_to_state(m, "count_change")
    ELSE go_to_state(m, "waiting")

RECURSIVE ReturnCoins_strict(_, _, _)
\* The mutant of ReturnCoins: a coin is paid out only while more than its
\* value remains.
ReturnCoins_strict(m, remaining_change, values) ==
    IF values = <<>>
    THEN [machine |-> m, remaining_change |-> remaining_change]
    ELSE IF remaining_change > Head(values)
    THEN ReturnCoins_strict(Say(m, Msg("returning", EmptyStr, Head(values))),
                            remaining_change - Head(values), values)
    ELSE ReturnCoins_strict(m, remaining_change, Tail(values))

RECURSIVE ReturnCoins(_, _, _)
\* The two nested loops of CountChangeState.update (for coin_value in
\* values: while remaining_change >= coin_value): the machine after the coins
\* are paid out, and what is left of remaining_change.
ReturnCoins(m, remaining_change, values) ==
    IF values = <<>>
    THEN [machine |-> m, remaining_change |-> remaining_change]
    ELSE IF remaining_change >= Head(values)
    THEN ReturnCoins(Say(m, Msg("returning", EmptyStr, Head(values))),
                     remaining_change - Head(values), values)
    ELSE ReturnCoins(m, remaining_change, Tail(values))

\* CountChangeState.update
CountChangeState_update(m) ==
    LET r == ReturnCoins(m, m.change_due, coin_values)
        m1 == [r.machine EXCEPT !.change_due = 0]
    IN IF r.remaining_change = 0 THEN go_to_state(m1, "waiting") ELSE m1

\* VendingMachine.update, dispatched on the class of the active state
update(m) ==
    CASE m.state = "None" -> m
      [] m.state = "waiting" -> WaitingState_update(m)
      [] m.state = "add_coins" -> AddCoinsState_update(m)
      [] m.state = "deliver_product" -> DeliverProductState_update(m)
      [] m.state = "count_change" -> CountChangeState_update(m)

\* VendingMachine.__init__
NewVendingMachine ==
    [state |-> "None", event |-> EmptyStr, amount |-> 0, change_due |-> 0,
     stock |-> INITIAL_STOCK, selected_button_key |-> NoAttr,
     vend_successful |-> "absent", printed |-> <<>>]

(* ---------------------------- the main loop --------------------------- *)

IndexStr == <<"0", "1", "2", "3", "4">>

Min(a, b) == IF a < b THEN a ELSE b

\* The keys of the product buttons of the window: f"{product_key}_{i}" for
\* i in range(stock_count)
ButtonKeys ==
    UNION {{k \o Str(IndexStr[i]) :
               i \in 1..Min(INITIAL_STOCK[k], MaxInstance)} :
           k \in DOMAIN PRODUCTS}

\* What window.read can return while the window is open.
Events == DOMAIN COINS \cup ButtonKeys \cup {RETURN, TIMEOUT_KEY}

\* The events the run offers to the machine: all of them, coins as long as
\* the balance stays within the bound.
Offered(m, e) ==
    e \in DOMAIN COINS => m.amount + COINS[e] <= MaxAmount * 5

Init ==
    /\ vending = go_to_state(NewVendingMachine, "waiting")
    /\ pc = "read"
    /\ dispensed = [k \in DOMAIN PRODUCTS |-> 0]
    /\ window = {}
    /\ presses = 0
    /\ pending = <<>>

\* window.read returned e: the event is handed to the machine unless a
\* RETURN is already pending there.
Read(e) ==
    /\ pc = "read"
    /\ vending' = [vending EXCEPT
                      !.event = IF vending.event = RETURN THEN @ ELSE e,
                      !.printed = <<>>]
    /\ pc' = "update"
    /\ pending' = Append(pending, e)
    /\ UNCHANGED <<dispensed, window, presses>>

\* The top of the loop, with every key of the window on offer.
ReadEvent ==
    \E e \in Events : Offered(vending, e) /\ Read(e)

\* The lines of `printed` that report a dispensed unit of product k.
DispensedLines(printed, k) ==
    Cardinality({i \in 1..Len(printed) :
                    printed[i].text = "dispensed" /\ printed[i].key = k})

RECURSIVE After(_, _)
\* What is left of the sequence q after the first e in it; nothing if there
\* is none.
After(q, e) ==
    IF q = <<>> THEN <<>>
    ELSE IF Head(q) = e THEN Tail(q) ELSE After(Tail(q), e)

\* update() has run on machine m and left it as m1.
Ran(m1) ==
    /\ vending' = m1
    /\ pc' = "retire"
    /\ dispensed' = [k \in DOMAIN PRODUCTS |->
                        dispensed[k] + DispensedLines(m1.printed, k)]
    /\ UNCHANGED <<window, presses>>

\* vending.update()
Update ==
    /\ pc = "update"
    /\ Ran(update(vending))
    /\ pending' = After(pending, vending.event)

\* The rest of the loop body: the button of a finished sale is retired, and
\* the event is reset.
EndOfTick ==
    /\ pc = "retire"
    /\ IF /\ vending.state # "deliver_product"
          /\ vending.vend_successful = "True"
       THEN IF vending.selected_button_key = NoAttr
            THEN \* AttributeError: the loop dies
                 /\ pc' = "crashed"
                 /\ UNCHANGED vending
            ELSE /\ vending' = [vending EXCEPT
                                  !.vend_successful = "False",
                                  !.selected_button_key = NoAttr,
                                  !.event = EmptyStr]
                 /\ pc' = "read"
       ELSE /\ vending' = [vending EXCEPT !.event = EmptyStr]
            /\ pc' = "read"
    /\ UNCHANGED <<dispensed, window, presses, pending>>

Next == ReadEvent \/ Update \/ EndOfTick

Spec == Init /\ [][Next]_vars

(* --------------------- the loop with its window ----------------------- *)

RECURSIVE SumStock(_, _)
\* The units of the products ks in the stock.
SumStock(stock, ks) ==
    IF ks = {} THEN 0
    ELSE LET k == CHOOSE x \in ks : TRUE
         IN stock[k] + SumStock(stock, ks \ {k})

\* The units machine m has sold.
Sold(m) ==
    SumStock(INITIAL_STOCK, DOMAIN PRODUCTS) - SumStock(m.stock, DOMAIN PRODUCTS)

\* The top of the loop: window.read returns the key of an element that is
\* visible, so never the key of a button whose frame was hidden.
ReadEventGUI ==
    \E e \in Events :
        /\ Offered(vending, e)
        /\ e \in ButtonKeys => e \notin window /\ Sold(vending) < MaxSales
        /\ Read(e)

\* The rest of the loop body, with the window: the frame of the button of a
\* finished sale is made invisible.
EndOfTickGUI ==
    /\ pc = "retire"
    /\ IF /\ vending.state # "deliver_product"
          /\ vending.vend_successful = "True"
       THEN IF \/ vending.selected_button_key = NoAttr
               \/ vending.selected_button_key \notin ButtonKeys
            THEN \* AttributeError, or no such frame: the loop dies
                 /\ pc' = "crashed"
                 /\ UNCHANGED <<vending, window>>
            ELSE /\ window' = window \cup {vending.selected_button_key}
                 /\ vending' = [vending EXCEPT
                                  !.vend_successful = "False",
                                  !.selected_button_key = NoAttr,
                                  !.event = EmptyStr]
                 /\ pc' = "read"
       ELSE /\ vending' = [vending EXCEPT !.event = EmptyStr]
            /\ pc' = "read"
            /\ UNCHANGED window
    /\ UNCHANGED <<dispensed, presses, pending>>

NextGUI == ReadEventGUI \/ Update \/ EndOfTickGUI

SpecGUI == Init /\ [][NextGUI]_vars

(* ------------------- the loop with the RETURN button ------------------ *)

\* wrapped_button_action, the GPIO callback: it runs on the library's thread,
\* so between any two steps of the loop.  A press while update() is running
\* and past its reads of machine.event has the effect of a press right after
\* update() returned: either way the next write to the event erases it.
wrapped_button_action ==
    /\ pc \in {"read", "update", "enter", "retire"}
    /\ presses < MaxPresses
    /\ vending' = [vending EXCEPT !.event = RETURN]
    /\ presses' = presses + 1
    /\ pending' = Append(pending, RETURN)
    /\ UNCHANGED <<pc, dispensed, window>>

\* The conditions under which AddCoinsState.update reaches its go_to_state
\* call: the event is the click of a button of a product that is in stock and
\* that the balance pays for.
AcceptsSelection(m) ==
    /\ m.state = "add_coins"
    /\ m.event # RETURN
    /\ m.event \notin DOMAIN COINS
    /\ HasUnderscore(m.event)
    /\ rsplit(m.event)[1] \in DOMAIN PRODUCTS
    /\ ~OutOfStock(m, rsplit(m.event)[1])
    /\ CanAfford(m, PRODUCTS[rsplit(m.event)[1]].price)

\* AddCoinsState.update up to the call of go_to_state: the key of the button
\* is kept and the event becomes the product key.
Select ==
    /\ pc = "update"
    /\ AcceptsSelection(vending)
    /\ vending' = [vending EXCEPT !.selected_button_key = vending.event,
                                  !.event = rsplit(vending.event)[1]]
    /\ pc' = "enter"
    /\ pending' = After(pending, vending.event)
    /\ UNCHANGED <<dispensed, window, presses>>

\* The rest of that update(): go_to_state('deliver_product'), whose on_entry
\* reads machine.event again, and the reset of the event.
Enter ==
    /\ pc = "enter"
    /\ Ran([go_to_state(vending, "deliver_product") EXCEPT !.event = EmptyStr])
    /\ UNCHANGED pending

\* Every other update().
UpdateHW == ~AcceptsSelection(vending) /\ Update

NextHW ==
    ReadEventGUI \/ UpdateHW \/ Select \/ Enter \/ EndOfTickGUI
        \/ wrapped_button_action

SpecHW == Init /\ [][NextHW]_vars

(* ---------------- the machine with button_action() called ------------- *)

\* VendingMachine.button_action, called by a client of the machine between
\* two update() calls, as the test of the method calls it.
button_action ==
    /\ pc = "read"
    /\ presses < MaxPresses
    /\ vending' = [vending EXCEPT !.event = RETURN]
    /\ presses' = presses + 1
    /\ pending' = Append(pending, RETURN)
    /\ UNCHANGED <<pc, dispensed, window>>

NextButton == ReadEventGUI \/ Update \/ EndOfTickGUI \/ button_action

SpecButton == Init /\ [][NextButton]_vars

(* ------------------------------ claims -------------------------------- *)

\* update() is about to run in state s.
Updating(s) == pc = "update" /\ vending.state = s

\* The event handed to update() is the click of a button of product k.
Selects(k) ==
    /\ HasUnderscore(vending.event)
    /\ rsplit(vending.event)[1] = k
    /\ k \in DOMAIN PRODUCTS

Price(k) == PRODUCTS[k].price

\* The cents of the "returning" lines of a printed sequence, in order.
ReturnedCoins(printed) ==
    LET idx == {i \in 1..Len(printed) : printed[i].text = "returning"}
        RECURSIVE Pick(_)
        Pick(i) == IF i > Len(printed) THEN <<>>
                   ELSE IF i \in idx THEN <<printed[i].cents>> \o Pick(i + 1)
                   ELSE Pick(i + 1)
    IN Pick(1)

RECURSIVE SumSeq(_)
SumSeq(q) == IF q = <<>> THEN 0 ELSE Head(q) + SumSeq(Tail(q))

\* C1: a selection of a product in stock, delivered in add_coins with a
\* balance b of at least its price, enters deliver_product with amount 0 and
\* change_due b - price; the next update() keeps both and leaves for
\* count_change when change is due (b above the price) and for waiting when
\* none is (b the exact price).
C1_PurchaseThenOneUpdate ==
    [][/\ \A k \in DOMAIN PRODUCTS :
            (/\ Updating("add_coins")
             /\ Selects(k)
             /\ vending.stock[k] > 0
             /\ vending.amount >= Price(k))
            => /\ vending'.state = "deliver_product"
               /\ vending'.amount = 0
               /\ vending'.change_due = vending.amount - Price(k)
               /\ vending'.change_due > 0 <=> vending.amount > Price(k)
       /\ Updating("deliver_product")
            => /\ vending'.amount = 0
               /\ vending'.change_due = vending.change_due
               /\ vending'.state = IF vending.change_due > 0
                                   THEN "count_change" ELSE "waiting"
      ]_vars

\* A sale with change due has gone through its second update().
C1_Witness ==
    /\ pc = "retire"
    /\ vending.state = "count_change"
    /\ vending.vend_successful = "True"
    /\ vending.change_due = 125

\* C2: an accepted purchase of product k takes exactly one unit of k from the
\* stock and none of any other product, no other step changes the stock, and
\* the units missing from the initial stock of k are as many as the units of
\* k reported dispensed.
C2_StockOnlyLeavesBySale ==
    /\ [](\A k \in DOMAIN PRODUCTS :
            INITIAL_STOCK[k] - vending.stock[k] = dispensed[k])
    /\ [][IF /\ Updating("add_coins")
             /\ \E k \in DOMAIN PRODUCTS :
                   Selects(k) /\ vending.stock[k] > 0
                              /\ vending.amount >= Price(k)
          THEN vending'.stock =
                  [vending.stock EXCEPT ![rsplit(vending.event)[1]] = @ - 1]
          ELSE vending'.stock = vending.stock
         ]_vars

\* Two units of one product and one of another have been sold.
C2_Witness ==
    /\ dispensed[Str("cap")] = 2
    /\ dispensed[Str("res")] = 1
    /\ vending.stock[Str("cap")] = 2

\* C3: the coins count_change pays out add up to the change_due it was
\* entered with, and they are paid out largest first.
C3_CoinsSumToChangeDue ==
    [][Updating("count_change")
        => LET coins == ReturnedCoins(vending'.printed)
           IN /\ SumSeq(coins) = vending.change_due
              /\ \A i \in 1..Len(coins) : coins[i] \in {200, 100, 25, 10, 5}
              /\ \A i \in 1..(Len(coins) - 1) : coins[i] >= coins[i + 1]
      ]_vars

\* 190 cents have been returned, as 100 + 25 + 25 + 25 + 10 + 5.
C3_Witness ==
    /\ pc = "retire"
    /\ ReturnedCoins(vending.printed) = <<100, 25, 25, 25, 10, 5>>

\* C4: RETURN delivered in add_coins with balance b moves b to change_due,
\* zeroes amount, enters count_change and leaves the stock alone.
C4_ReturnInAddCoins ==
    [][(Updating("add_coins") /\ vending.event = RETURN)
        => /\ vending'.change_due = vending.amount
           /\ vending'.amount = 0
           /\ vending'.state = "count_change"
           /\ vending'.stock = vending.stock
      ]_vars

\* A balance of 175 has been turned into change by RETURN, no sale before it.
C4_Witness ==
    /\ pc = "retire"
    /\ vending.state = "count_change"
    /\ vending.vend_successful = "absent"
    /\ vending.change_due = 175
    /\ vending.amount = 0

\* C5: a selection delivered in add_coins of a product that is out of stock,
\* or that costs more than the balance, leaves the state, the balance, the
\* change due and the stock as they were.
C5_RejectedSelection ==
    [][\A k \in DOMAIN PRODUCTS :
        (/\ Updating("add_coins")
         /\ Selects(k)
         /\ (vending.stock[k] = 0 \/ vending.amount < Price(k)))
        => /\ vending'.state = "add_coins"
           /\ vending'.amount = vending.amount
           /\ vending'.change_due = vending.change_due
           /\ vending'.stock = vending.stock
           /\ vending'.vend_successful = vending.vend_successful
      ]_vars

\* A sold-out product was selected with less than its price in the balance.
C5_Witness ==
    /\ pc = "retire"
    /\ vending.state = "add_coins"
    /\ \E k \in DOMAIN PRODUCTS :
        /\ vending.printed = <<Msg("out_of_stock", k, 0)>>
        /\ vending.stock[k] = 0
        /\ vending.amount < Price(k)

\* C6: a coin delivered in waiting or in add_coins adds its value to amount,
\* leaves change_due and the stock alone, and the machine is in add_coins.
C6_CoinCredited ==
    [][\A c \in DOMAIN COINS :
        (/\ pc = "update"
         /\ vending.state \in {"waiting", "add_coins"}
         /\ vending.event = c)
        => /\ vending'.amount = vending.amount + COINS[c]
           /\ vending'.change_due = vending.change_due
           /\ vending'.stock = vending.stock
           /\ vending'.state = "add_coins"
      ]_vars

\* A second coin has been credited: 25 on top of 10.
C6_Witness ==
    /\ pc = "retire"
    /\ vending.state = "add_coins"
    /\ vending.amount = 35
    /\ vending.printed = <<Msg("balance", EmptyStr, 35)>>

\* C7: amount, change_due and every stock count are never negative.
C7_NothingNegative ==
    /\ vending.amount >= 0
    /\ vending.change_due >= 0
    /\ \A k \in DOMAIN PRODUCTS : vending.stock[k] >= 0

\* The last unit of a product has just been sold at its exact price.
C7_Witness ==
    /\ vending.state = "deliver_product"
    /\ vending.amount = 0
    /\ vending.change_due = 0
    /\ \E k \in DOMAIN PRODUCTS :
        /\ rsplit(vending.selected_button_key)[1] = k
        /\ vending.stock[k] = 0

\* C8: amount and change_due are never both positive: a step that gives
\* change_due a new positive value leaves amount at zero, and amount does not
\* change while change_due is positive.
C8_BalanceOrChange ==
    /\ [](~(vending.amount > 0 /\ vending.change_due > 0))
    /\ [][/\ (vending'.change_due # vending.change_due
                /\ vending'.change_due > 0) => vending'.amount = 0
          /\ vending.change_due > 0 => vending'.amount = vending.amount
         ]_vars

\* A coin was offered while a sale's change was still due, and not credited.
C8_Witness ==
    /\ pc = "retire"
    /\ vending.state = "count_change"
    /\ vending.event \in DOMAIN COINS
    /\ vending.change_due > 0
    /\ vending.amount = 0

\* The machine leaves state s in this step.
Leaves(s) == Updating(s) /\ vending'.state # s

\* C9, as stated: after every transition out of add_coins or out of
\* deliver_product, exactly one of amount > 0 and change_due > 0 holds.
C9_ExactlyOneAfterTransition ==
    [][(Leaves("add_coins") \/ Leaves("deliver_product"))
        => (vending'.amount > 0) # (vending'.change_due > 0)
      ]_vars

\* C9, amended: after every transition out of add_coins or out of
\* deliver_product amount is 0, and change_due is positive except where a
\* purchase at the exact price is under way: entering deliver_product with a
\* balance equal to the price, and leaving deliver_product for waiting.
C9_AtMostOneAfterTransition ==
    [][(Leaves("add_coins") \/ Leaves("deliver_product"))
        => /\ vending'.amount = 0
           /\ vending'.change_due >= 0
           /\ vending'.change_due = 0 <=>
                \/ /\ vending.state = "add_coins"
                   /\ vending'.state = "deliver_product"
                   /\ \E k \in DOMAIN PRODUCTS :
                        Selects(k) /\ vending.amount = Price(k)
                \/ /\ vending.state = "deliver_product"
                   /\ vending'.state = "waiting"
      ]_vars

\* A purchase at the exact price has gone through to waiting.
C9_Witness ==
    /\ pc = "retire"
    /\ vending.state = "waiting"
    /\ vending.vend_successful = "True"
    /\ vending.amount = 0
    /\ vending.change_due = 0

\* C10: update() in count_change always zeroes change_due and enters
\* waiting, and count_change is never the active state with no change due.
C10_CountChangeAlwaysLeaves ==
    /\ [](vending.state = "count_change" => vending.change_due > 0)
    /\ [][Updating("count_change")
            => /\ vending'.change_due = 0
               /\ vending'.state = "waiting"
         ]_vars

\* A single nickel of change has been returned and waiting entered.
C10_Witness ==
    /\ pc = "retire"
    /\ vending.state = "waiting"
    /\ vending.change_due = 0
    /\ vending.printed = <<Msg("returning", EmptyStr, 5),
                           Msg("waiting", EmptyStr, 0)>>

\* update() is about to accept the click of a button of product k.
Accepts(k) ==
    /\ Updating("add_coins")
    /\ Selects(k)
    /\ vending.stock[k] > 0
    /\ vending.amount >= Price(k)

\* C11, as stated: the dispatch that accepts a selection returns with the
\* machine already in count_change or waiting, so deliver_product is never
\* the active state when the loop reads or dispatches an event.
C11_DispenseIsOneDispatch ==
    pc \in {"read", "update", "retire"} => vending.state # "deliver_product"

\* C11, amended: the dispatch that accepts a selection returns with
\* deliver_product active; the next dispatch takes the transition decision,
\* count_change when change is due and waiting otherwise, and the event it
\* carries is consumed without any effect on balance, change or stock.
C11_DispenseTakesTwoDispatches ==
    [][/\ (\E k \in DOMAIN PRODUCTS : Accepts(k))
            => vending'.state = "deliver_product" /\ pc' = "retire"
       /\ Updating("deliver_product")
            => /\ vending'.state = IF vending.change_due > 0
                                   THEN "count_change" ELSE "waiting"
               /\ vending'.amount = vending.amount
               /\ vending'.change_due = vending.change_due
               /\ vending'.stock = vending.stock
               /\ pending' = <<>>
      ]_vars

\* A quarter was inserted while deliver_product was active, and was dropped.
C11_Witness ==
    /\ pc = "retire"
    /\ vending.state = "waiting"
    /\ vending.vend_successful = "True"
    /\ vending.event = Str("25")
    /\ vending.amount = 0

\* Strings no key of the window carries: a selection of a product the
\* catalog does not have, and a word without an underscore.
Foreign == {Str("widget") \o Str("0"), Str("bogus")}

\* Machine m1 has the state, balance, change due and stock of machine m.
SameMoneyAndStock(m, m1) ==
    /\ m1.state = m.state
    /\ m1.amount = m.amount
    /\ m1.change_due = m.change_due
    /\ m1.stock = m.stock

\* Event e is one waiting does not handle: anything but a coin.
UnhandledInWaiting(e) == e \notin DOMAIN COINS

\* Event e is one add_coins does not handle: not RETURN, not a coin, and not
\* the click of a button of a product of the catalog (the tick is such a
\* string: it has underscores and its prefix is no product).
UnhandledInAddCoins(e) ==
    /\ e # RETURN
    /\ e \notin DOMAIN COINS
    /\ HasUnderscore(e) => rsplit(e)[1] \notin DOMAIN PRODUCTS

\* C13: an update() of waiting that carries a RETURN, a selection or a tick,
\* and an update() of add_coins that carries a tick or a selection whose
\* prefix is not a product, leaves the state, the balance, the change due and
\* the stock as they were and the loop goes on; the same holds of every
\* string foreign to the window handed to update() in these states.
C13_UnhandledEventsAreNoOps ==
    [][/\ ((\/ Updating("waiting") /\ UnhandledInWaiting(vending.event)
            \/ Updating("add_coins") /\ UnhandledInAddCoins(vending.event))
           => /\ SameMoneyAndStock(vending, vending')
              /\ vending'.printed = <<>>
              /\ pc' = "retire")
       /\ (Updating("waiting") \/ Updating("add_coins"))
           => \A e \in Foreign \cup {TIMEOUT_KEY} :
                 SameMoneyAndStock(vending,
                                   update([vending EXCEPT !.event = e]))
      ]_vars

\* A RETURN has been absorbed in waiting, after a sale of one res.
C13_Witness ==
    /\ pc = "retire"
    /\ vending.state = "waiting"
    /\ vending.event = EmptyStr
    /\ vending.printed = <<>>
    /\ vending.stock[Str("res")] = 4

\* Some line of the printed sequence has the given text.
Printed(text) ==
    \E i \in 1..Len(vending.printed) : vending.printed[i].text = text

\* C16: with one event per update() and no interrupt, deliver_product is
\* entered only from an add_coins update whose event selects a product with
\* units in stock, its entry sets vend_successful to True, and neither the
\* out-of-stock error of the entry nor vend_successful = False of its failure
\* branch is ever seen while the key of a selection is held.
C16_RecheckAlwaysSucceeds ==
    /\ [](~Printed("error_out_of_stock"))
    /\ [](vending.state = "deliver_product"
            => /\ vending.vend_successful = "True"
               /\ vending.selected_button_key # NoAttr)
    /\ [][(pc = "update" /\ vending'.state = "deliver_product")
            => /\ Updating("add_coins")
               /\ \E k \in DOMAIN PRODUCTS :
                     /\ Selects(k)
                     /\ vending.stock[k] > 0
                     /\ vending'.stock[k] = vending.stock[k] - 1
               /\ vending'.vend_successful = "True"
               /\ Printed("dispensed")'
          ]_vars

\* The last unit of res has just been dispensed: the recheck passed with a
\* stock of one.
C16_Witness ==
    /\ pc = "retire"
    /\ vending.state = "deliver_product"
    /\ vending.stock[Str("res")] = 0
    /\ vending.vend_successful = "True"
    /\ Printed("dispensed")

\* The sale or change return that state s is part of is under way.
InPhase(s) == s \in {"deliver_product", "count_change"}

\* C17: while deliver_product or count_change is active every event of the
\* window can be the one the next update() carries, and whichever it is, the
\* update() of deliver_product leaves for count_change (change due) or for
\* waiting (none due) and the update() of count_change leaves for waiting:
\* two updates at most, none of which changes the balance or the stock, and
\* the coins paid out are the change that was due.
C17_PhaseRunsToCompletion ==
    /\ []((pc = "read" /\ InPhase(vending.state))
            => \A e \in Events : ENABLED Read(e))
    /\ [][/\ Updating("deliver_product")
              => /\ vending'.state = IF vending.change_due > 0
                                     THEN "count_change" ELSE "waiting"
                 /\ vending'.change_due = vending.change_due
          /\ Updating("count_change")
              => /\ vending'.state = "waiting"
                 /\ SumSeq(ReturnedCoins(vending'.printed))
                       = vending.change_due
          /\ (pc = "update" /\ InPhase(vending.state))
              => /\ vending'.amount = vending.amount
                 /\ vending'.stock = vending.stock
                 /\ pc' = "retire"
          ]_vars

\* The update() of deliver_product carried a RETURN, and the sale went on to
\* its change return.
C17_Witness ==
    /\ pc = "retire"
    /\ vending.state = "count_change"
    /\ vending.event = RETURN
    /\ vending.vend_successful = "True"

\* The money the machine holds: the balance and the change it owes.
Held(m) == m.amount + m.change_due

RECURSIVE SumOver(_, _)
\* The sum of f[k] over the keys k of the set ks.
SumOver(f, ks) ==
    IF ks = {} THEN 0
    ELSE LET k == CHOOSE x \in ks : TRUE
         IN f[k] + SumOver(f, ks \ {k})

\* The cents a step credits to the balance: the value of the coin an update()
\* of waiting or add_coins carries.
CreditedByStep ==
    IF /\ pc = "update"
       /\ vending.state \in {"waiting", "add_coins"}
       /\ vending.event \in DOMAIN COINS
    THEN COINS[vending.event] ELSE 0

\* The prices of the units a step dispenses.
SoldByStep ==
    SumOver([k \in DOMAIN PRODUCTS |->
                Price(k) * (dispensed'[k] - dispensed[k])],
            DOMAIN PRODUCTS)

\* The coins a step returns.
ReturnedByStep ==
    IF pc = "update" THEN SumSeq(ReturnedCoins(vending'.printed)) ELSE 0

\* C19: the machine starts with no money, and every step keeps the books:
\* what it holds after the step (amount + change_due), plus the prices of the
\* units the step dispensed, plus the coins the step returned, is what it
\* held before plus the coin the step credited.  Summed over a run, the coins
\* credited equal amount + change_due + prices of all units dispensed + all
\* coins returned.
C19_MoneyConserved ==
    /\ Held(vending) = 0
    /\ [][Held(vending') + SoldByStep + ReturnedByStep
            = Held(vending) + CreditedByStep]_vars

\* A sale has been made and its change has just been returned.
C19_Witness ==
    /\ pc = "retire"
    /\ vending.state = "waiting"
    /\ dispensed[Str("transistor")] = 1
    /\ SumSeq(ReturnedCoins(vending.printed)) = 35
    /\ vending.vend_successful = "False"

\* C20: in the loop without the interrupt, whenever waiting is the active
\* state the balance and the change due are both zero, so the RETURN that
\* waiting absorbs has no funds to discard.
C20_WaitingHoldsNoMoney ==
    vending.state = "waiting"
    => /\ vending.amount = 0
       /\ vending.change_due = 0

\* Waiting has absorbed a RETURN after a cap was sold.
C20_Witness ==
    /\ pc = "retire"
    /\ vending.state = "waiting"
    /\ vending.event = EmptyStr
    /\ vending.printed = <<>>
    /\ dispensed[Str("cap")] = 1

\* deliver_product is active after an entry whose stock recheck failed.
FailedEntry ==
    vending.state = "deliver_product" /\ vending.vend_successful = "False"

\* C12: an entry of deliver_product that finds no stock under the key it is
\* given leaves the stock alone and the loop running, and the update() that
\* then leaves deliver_product has moved the whole balance to change_due.
C12_FailedEntryRoutesFundsToChange ==
    [][/\ (pc = "enter" /\ pc' = "retire"
            /\ StockGet(vending, vending.event) = 0)
           => /\ vending'.stock = vending.stock
              /\ FailedEntry'
       /\ (pc = "update" /\ FailedEntry)
           => /\ pc' = "retire"
              /\ vending'.stock = vending.stock
              /\ vending'.amount = 0
              /\ vending'.change_due = vending.amount
      ]_vars

\* The failed entry has happened with a balance of 100, and update() is next.
C12_Witness ==
    /\ pc = "update"
    /\ FailedEntry
    /\ vending.amount = 100

\* The buttons of product p whose frame has been hidden.
Retired(p) == {b \in window : rsplit(b)[1] = p}

\* The loop is at the step that retires the button of a finished sale.
Retiring ==
    /\ pc = "retire"
    /\ vending.state # "deliver_product"
    /\ vending.vend_successful = "True"

\* C18: the loop never dies at the retirement step; the step runs on the
\* first tick that ends outside deliver_product, with the key of the accepted
\* click, hides the frame of that one button, which was visible until then,
\* and leaves no selected_button_key and vend_successful False; a tick that
\* ends in deliver_product hides nothing; and at every top of the loop outside
\* deliver_product the hidden buttons of each product are as many as the
\* units that left its stock, with no selection pending.
C18_OneButtonPerSale ==
    /\ [](pc # "crashed")
    /\ []((pc = "read" /\ vending.state # "deliver_product")
            => /\ \A p \in DOMAIN PRODUCTS :
                     Cardinality(Retired(p))
                       = INITIAL_STOCK[p] - vending.stock[p]
               /\ vending.selected_button_key = NoAttr
               /\ vending.vend_successful # "True")
    /\ []((pc = "read" /\ vending.state = "deliver_product")
            => /\ vending.selected_button_key \in ButtonKeys \ window
               /\ vending.vend_successful = "True")
    /\ [][/\ Retiring
              => /\ vending.selected_button_key \in ButtonKeys \ window
                 /\ window' = window \cup {vending.selected_button_key}
                 /\ vending'.selected_button_key = NoAttr
                 /\ vending'.vend_successful = "False"
          /\ (pc = "retire" /\ ~Retiring) => window' = window
          /\ (\E k \in DOMAIN PRODUCTS : Accepts(k))
              => vending'.selected_button_key = vending.event
          /\ pc # "retire" => window' = window
          ]_vars

\* Both buttons of cap and one of res have been retired, the last of them in
\* the step just taken.
C18_Witness ==
    /\ pc = "read"
    /\ vending.state = "count_change"
    /\ Retired(Str("cap")) = {Str("cap") \o Str("0"), Str("cap") \o Str("1")}
    /\ Cardinality(Retired(Str("res"))) = 1
    /\ vending.vend_successful = "False"

\* The step is an update(): all of it, or AddCoinsState.update up to its
\* go_to_state call.
Dispatches == pc = "update" /\ pc' # "update"

\* C14: every update() acts on the oldest event that the window or the
\* callback produced and no update() has acted on yet, and on nothing else:
\* events are dispatched once each, in the order they arrived, none is
\* discarded and none is erased.
C14_DispatchedOnceInOrder ==
    [][Dispatches
        => /\ pending # <<>>
           /\ vending.event = Head(pending)
           /\ pending' = Tail(pending)
      ]_vars

\* The button was pressed before the window returned the click of a quarter:
\* update() is about to act on the RETURN, and the quarter is not in
\* machine.event any more.
C14_Witness ==
    /\ pc = "update"
    /\ presses = 1
    /\ vending.event = RETURN
    /\ pending = <<RETURN, Str("25")>>

\* The step is a press of the RETURN button: a call of button_action.
Pressed == presses' = presses + 1

\* C15: a call of button_action() in add_coins with a balance b above zero
\* returns with amount 0, change_due b and count_change the active state.
C15_ButtonActsAtOnce ==
    [][(Pressed /\ vending.state = "add_coins" /\ vending.amount > 0)
        => /\ vending'.amount = 0
           /\ vending'.change_due = vending.amount
           /\ vending'.state = "count_change"
      ]_vars

\* button_action() has returned in add_coins with the balance of 25 that the
\* test gives the machine.
C15_Witness ==
    /\ presses = 1
    /\ pc = "read"
    /\ vending.state = "add_coins"
    /\ vending.event = RETURN
    /\ vending.amount = 25

\* C21: with the callback free to run between any two steps of the loop and
\* inside the accepting update(), waiting is never the active state with a
\* balance above zero, and the go_to_state call of an accepted purchase
\* always finds in machine.event the product key that AddCoinsState.update
\* put there, so its entry dispenses and never fails.
C21_CallbackNeverStrandsBalance ==
    /\ [](vending.state = "waiting" => vending.amount = 0)
    /\ [][(pc = "enter" /\ pc' = "retire")
            => /\ vending.event = rsplit(vending.selected_button_key)[1]
               /\ vending'.vend_successful = "True"
               /\ vending'.amount = 0
          ]_vars

\* The button was pressed inside the accepting update(): the product key of
\* an affordable res is gone from machine.event, and go_to_state is next.
C21_Witness ==
    /\ pc = "enter"
    /\ presses = 1
    /\ vending.event = RETURN
    /\ vending.selected_button_key = Str("res") \o Str("0")
    /\ vending.amount = 25
====
